---- MODULE Spec2Model ----
(***************************************************************************)
(* Scoutly: a LINE chat front end that classifies a user message, replies  *)
(* with an acknowledgment, and runs a browsing agent in a background task  *)
(* whose result is rendered and pushed to the user (src/app.py,            *)
(* src/intent_parser.py, src/config_loader.py, src/scout_agent.py,         *)
(* src/ui_generator.py).                                                   *)
(*                                                                         *)
(* Text that the code encodes, decodes or compares character by character  *)
(* (URLs, domain keys, topics, user text, postback data, summaries) is a   *)
(* sequence of one-character strings.  Fixed message texts are TLA+        *)
(* strings; the non-ASCII literals of the source are written in ASCII      *)
(* between <..>.                                                           *)
(***************************************************************************)
EXTENDS Integers, Sequences, FiniteSets, Bags, TLC

VARIABLES
    reqs,       \* bag of webhook events handled so far, each with its
                \* replies, its background task and the task's pushes
    renderIn,   \* inputs handed to the function under check: the text and
                \* domain key of a renderer, or the history of an agent run
    renderOut   \* whether the function was applied and what it returned

vars == <<reqs, renderIn, renderOut>>

(***************************************************************************)
(* Bounds                                                                  *)
(***************************************************************************)
MaxEvents == 2
MaxArticles == 2
MaxExtracted == 2
MaxLines == 3

(***************************************************************************)
(* Character-level text                                                    *)
(***************************************************************************)
S_action == <<"a","c","t","i","o","n">>
S_summarize == <<"s","u","m","m","a","r","i","z","e">>
S_domain == <<"d","o","m","a","i","n">>
S_url == <<"u","r","l">>
S_aiops == <<"a","i","o","p","s">>
S_stocks == <<"s","t","o","c","k","s">>
S_custom == <<"c","u","s","t","o","m",":">>
S_arxiv == <<"h","t","t","p","s",":","/","/","a","r","x","i","v",".","o","r","g">>

LowerSeq == <<"a","b","c","d","e","f","g","h","i","j","k","l","m","n","o","p","q",
             "r","s","t","u","v","w","x","y","z">>
UpperSeq == <<"A","B","C","D","E","F","G","H","I","J","K","L","M","N","O","P","Q",
             "R","S","T","U","V","W","X","Y","Z">>
Letters == {LowerSeq[i] : i \in 1..Len(LowerSeq)}
Capitals == {UpperSeq[i] : i \in 1..Len(UpperSeq)}
Digits == {"0","1","2","3","4","5","6","7","8","9"}

\* str.lower(), one character
LowerChar(c) ==
    IF c \in Capitals THEN LowerSeq[CHOOSE i \in 1..Len(UpperSeq) : UpperSeq[i] = c] ELSE c
\* str.upper(), one character
UpperChar(c) ==
    IF c \in Letters THEN UpperSeq[CHOOSE i \in 1..Len(LowerSeq) : LowerSeq[i] = c] ELSE c
\* str.lower()
Lower(s) == [i \in 1..Len(s) |-> LowerChar(s[i])]
\* str.upper()
Upper(s) == [i \in 1..Len(s) |-> UpperChar(s[i])]

\* the characters str.strip() removes and \s matches
Whitespace == {" ", "\n"}

RECURSIVE LStrip(_)
LStrip(s) == IF s # <<>> /\ Head(s) \in Whitespace THEN LStrip(Tail(s)) ELSE s
RECURSIVE RStrip(_)
RStrip(s) ==
    IF s # <<>> /\ s[Len(s)] \in Whitespace THEN RStrip(SubSeq(s, 1, Len(s) - 1)) ELSE s
\* str.strip()
Strip(s) == RStrip(LStrip(s))

\* str.replace(a, b) for a single character a
ReplaceChar(s, a, b) == [i \in 1..Len(s) |-> IF s[i] = a THEN b ELSE s[i]]

\* index of the first occurrence of character c in s, 0 when absent
RECURSIVE IndexOf(_, _, _)
IndexOf(s, c, i) ==
    IF i > Len(s) THEN 0
    ELSE IF s[i] = c THEN i
    ELSE IndexOf(s, c, i + 1)

\* str.split(c): the pieces of s between occurrences of character c
RECURSIVE SplitOn(_, _)
SplitOn(s, c) ==
    LET i == IndexOf(s, c, 1) IN
    IF i = 0 THEN <<s>>
    ELSE <<SubSeq(s, 1, i - 1)>> \o SplitOn(SubSeq(s, i + 1, Len(s)), c)

(***************************************************************************)
(* urllib.parse.quote_plus / unquote over the modelled alphabet            *)
(***************************************************************************)
\* characters quote_plus leaves alone
SafeChars == Letters \cup Capitals \cup Digits \cup {"_", ".", "-", "~"}

\* the percent escapes of the reserved characters of the alphabet
PctCode ==
    [c \in {":", "/", "?", "=", "&", "+", "%"} |->
        CASE c = ":" -> <<"%","3","A">>
          [] c = "/" -> <<"%","2","F">>
          [] c = "?" -> <<"%","3","F">>
          [] c = "=" -> <<"%","3","D">>
          [] c = "&" -> <<"%","2","6">>
          [] c = "+" -> <<"%","2","B">>
          [] c = "%" -> <<"%","2","5">>]

\* a character outside the modelled alphabet (any other decoded byte)
OtherChar == "<?>"

\* quote_plus of one character of the alphabet
QuoteChar(c) ==
    IF c \in SafeChars THEN <<c>>
    ELSE IF c = " " THEN <<"+">>
    ELSE PctCode[c]

RECURSIVE QuotePlus(_)
\* urllib.parse.quote_plus(s)
QuotePlus(s) == IF s = <<>> THEN <<>> ELSE QuoteChar(Head(s)) \o QuotePlus(Tail(s))

\* the character a %XY escape stands for
UnHex(x, y) ==
    LET up(h) == CASE h = "a" -> "A" [] h = "b" -> "B" [] h = "c" -> "C"
                   [] h = "d" -> "D" [] h = "e" -> "E" [] h = "f" -> "F"
                   [] OTHER -> h
        hit == {c \in DOMAIN PctCode : PctCode[c] = <<"%", up(x), up(y)>>}
    IN  IF hit # {} THEN CHOOSE c \in hit : TRUE
        ELSE IF up(x) = "2" /\ y = "0" THEN " "
        ELSE OtherChar

RECURSIVE Unquote(_)
\* urllib.parse.unquote(s): %XY with two hex digits is decoded, anything
\* else is kept
Unquote(s) ==
    IF s = <<>> THEN <<>>
    ELSE IF /\ Head(s) = "%" /\ Len(s) >= 3
            /\ \A i \in {2, 3} :
                   s[i] \in Digits \cup {"A","B","C","D","E","F","a","b","c","d","e","f"}
         THEN <<UnHex(s[2], s[3])>> \o Unquote(SubSeq(s, 4, Len(s)))
    ELSE <<Head(s)>> \o Unquote(Tail(s))

\* urllib.parse.urlencode of an ordered dict of text values:
\* '&'.join(quote_plus(k) + '=' + quote_plus(v))
RECURSIVE UrlEncode(_)
UrlEncode(pairs) ==
    IF pairs = <<>> THEN <<>>
    ELSE LET p == Head(pairs)
             one == QuotePlus(p[1]) \o <<"=">> \o QuotePlus(p[2])
         IN  IF Len(pairs) = 1 THEN one
             ELSE one \o <<"&">> \o UrlEncode(Tail(pairs))

\* one name=value piece of a query string as parse_qsl reads it: <<>> when
\* the piece is dropped (no '=', or a blank value: strict_parsing and
\* keep_blank_values are both off), else <<name, value>> with '+' turned
\* into a space and the escapes decoded
ParsePiece(piece) ==
    LET i == IndexOf(piece, "=", 1) IN
    IF i = 0 THEN <<>>
    ELSE LET name == SubSeq(piece, 1, i - 1)
             value == SubSeq(piece, i + 1, Len(piece))
         IN  IF value = <<>> THEN <<>>
             ELSE << <<Unquote(ReplaceChar(name, "+", " ")),
                       Unquote(ReplaceChar(value, "+", " "))>> >>

RECURSIVE ParsePieces(_)
ParsePieces(pieces) ==
    IF pieces = <<>> THEN <<>>
    ELSE ParsePiece(Head(pieces)) \o ParsePieces(Tail(pieces))

\* urllib.parse.parse_qs(data), as the sequence of its (name, value) pairs
ParseQs(data) == ParsePieces(SplitOn(data, "&"))

\* {k: v[0] for k, v in parse_qs(data).items()}.get(name, default)
ParamsGet(pairs, name, default) ==
    LET idx == {i \in 1..Len(pairs) : pairs[i][1] = name} IN
    IF idx = {} THEN default
    ELSE pairs[CHOOSE i \in idx : \A j \in idx : i <= j][2]

(***************************************************************************)
(* Python values                                                           *)
(***************************************************************************)
\* a JSON / dict field: missing, null, or a text
Absent == [t |-> "absent", s |-> <<>>]
PyNone == [t |-> "null", s |-> <<>>]
PyTrue == [t |-> "true", s |-> <<>>]
PyFalse == [t |-> "false", s |-> <<>>]
Str(s) == [t |-> "str", s |-> s]

\* bool(v): None, False and "" are falsy
Truthy(v) == v.t = "true" \/ (v.t = "str" /\ v.s # <<>>)
\* a or b
Or(a, b) == IF Truthy(a) THEN a ELSE b
\* d.get(k): None when the key is missing
Get(d, k) == IF d[k].t = "absent" THEN PyNone ELSE d[k]
\* d.get(k, default)
GetDefault(d, k, default) == IF d[k].t = "absent" THEN default ELSE d[k]

\* a piece of message text: a literal of the source, or text spliced in
Lit(l) == [lit |-> l, chars |-> <<>>]
Chars(s) == [lit |-> "", chars |-> s]

\* an exception: str(e) is prefix + cause
Exc(prefix, cause) == [prefix |-> prefix, cause |-> cause]
NoExc == Exc("", "")
ExcText(e) == <<Lit(e.prefix), Lit(e.cause)>>

(***************************************************************************)
(* linebot messages                                                        *)
(***************************************************************************)
\* TextSendMessage(text=...)
TextSendMessage(frags) == [type |-> "text", text |-> frags]

NoResultsNoticeZh == "<zh: no related results, try another keyword>"
NoResultsNoticeEn == "No results found. Please try again later."
ScoutErrorPrefix == "<cross> Scout error ("
ScoutErrorSep == "): "
SummaryErrorPrefix == "<cross> Summary Error: "
DiscoveryFailed == "Discovery failed: "
SummaryFailed == "Summary failed: "
AckSearchPrefix == "<rocket> <zh: searching:> "
AckSearchSuffix == "\n<zh: one moment, the result will be pushed>"
AckSummary == "<brain> <zh: analysing the article, the result will be pushed>"
DefaultTitle == "Deep Dive Analysis"

\* generate_help_flex(available_domains): one row per domain, upper-cased
generate_help_flex(available) ==
    [type |-> "flex", alt_text |-> <<Lit("Scoutly Help")>>,
     rows |-> {Upper(d) : d \in available}]

(***************************************************************************)
(* config_loader.py                                                        *)
(***************************************************************************)
\* the stems of the files domain_configs/*.yaml; no code writes to them
DomainConfigDir == {S_aiops, S_stocks}

\* the label a stored configuration carries in its "domain" field
StoredLabel(stem) == Upper(SubSeq(stem, 1, 1)) \o SubSeq(stem, 2, Len(stem))

\* the dict yaml.safe_load returns for the file <stem>.yaml
StoredConfig(stem) ==
    [_domain_key |-> Absent,
     domain |-> Str(StoredLabel(stem)),
     source |-> Str(<<"h","t","t","p","s",":","/","/">> \o stem),
     discovery_goal |-> Str(stem),
     focus_points |-> "stored"]

NoConfig ==
    [_domain_key |-> Absent, domain |-> Absent, source |-> Absent,
     discovery_goal |-> Absent, focus_points |-> "none"]

\* ConfigLoader.load_config(domain_name) against the files `files`
load_config(files, domain_name) ==
    IF Lower(domain_name) \notin files
    THEN [raised |-> TRUE, exc |-> Exc("", "Domain configuration not found"),
          config |-> NoConfig]
    ELSE [raised |-> FALSE, exc |-> NoExc, config |-> StoredConfig(Lower(domain_name))]

\* ConfigLoader.list_available_domains()
list_available_domains(files) == files

(***************************************************************************)
(* intent_parser.py                                                        *)
(***************************************************************************)
TopicPrefixLen == 60

\* what the classifier call produced: it raised, its content is not JSON, or
\* it is a JSON object with these fields
ClsRaise == [t |-> "raise", is_scout_request |-> Absent, matched_domain |-> Absent,
             topic |-> Absent, search_query |-> Absent]
ClsUnparsable == [ClsRaise EXCEPT !.t = "unparsable"]
ClsNotCalled == [ClsRaise EXCEPT !.t = "notcalled"]
ClsObject(isReq, matched, topic, query) ==
    [t |-> "object", is_scout_request |-> isReq, matched_domain |-> matched,
     topic |-> topic, search_query |-> query]

\* results of parse_intent: it raised, returned None, or returned a config
IntentRaise(e) == [t |-> "raise", exc |-> e, config |-> NoConfig]
IntentNone == [t |-> "none", exc |-> NoExc, config |-> NoConfig]
IntentConfig(c) == [t |-> "config", exc |-> NoExc, config |-> c]

\* the dynamic arXiv configuration of lines 78-99
DynamicConfig(parsed, user_text) ==
    LET topic == Or(Get(parsed, "topic"),
                    Str(SubSeq(user_text, 1, IF Len(user_text) < TopicPrefixLen
                                             THEN Len(user_text) ELSE TopicPrefixLen)))
        \* "Recent papers about " and "https://arxiv.org/search/?query="
        S_recent == <<"R","e","c","e","n","t"," ","p","a","p","e","r","s"," ",
                      "a","b","o","u","t"," ">>
        S_search == <<"h","t","t","p","s",":","/","/","a","r","x","i","v",".","o","r","g",
                      "/","s","e","a","r","c","h","/","?","q","u","e","r","y","=">>
        search_query == Or(Get(parsed, "search_query"),
                           Str(S_recent \o topic.s \o <<".">>))
        arxiv_query == ReplaceChar(topic.s, " ", "+")
    IN  [_domain_key |-> Str(S_custom \o topic.s),
         domain |-> topic,
         source |-> Str(S_search \o arxiv_query),
         discovery_goal |-> search_query,
         focus_points |-> "generic"]

parse_intent_any_message(files, user_text, cls) ==
    IF cls.t = "raise" THEN IntentRaise(Exc("", "classifier call failed"))
    ELSE IF cls.t = "unparsable" THEN IntentNone
    ELSE IntentConfig(DynamicConfig(cls, user_text))

\* parse_intent(user_text) given what the classifier call produced
parse_intent(files, user_text, cls) ==
    LET available == list_available_domains(files) IN
    IF cls.t = "raise" THEN IntentRaise(Exc("", "classifier call failed"))
    ELSE IF cls.t = "unparsable" THEN IntentNone
    ELSE IF ~Truthy(Get(cls, "is_scout_request")) THEN IntentNone
    ELSE LET matched == Get(cls, "matched_domain") IN
         IF Truthy(matched) /\ matched.s \in available
         THEN LET l == load_config(files, matched.s) IN
              IF l.raised THEN IntentRaise(l.exc)
              ELSE IntentConfig([l.config EXCEPT !._domain_key = matched])
         ELSE IntentConfig(DynamicConfig(cls, user_text))

(***************************************************************************)
(* scout_agent.py                                                          *)
(***************************************************************************)
\* what the agent hands back as text: None, or a string that is empty, is
\* prose (not JSON; items are its lines), or is the JSON text of an array
\* (items are its elements), of a non-empty object, or of a falsy value
\* (null, 0, {}, "", false)
AgentText(kind, items) == [t |-> kind, items |-> items]
\* one line of a text
TextLine(chars) == [chars |-> chars]
NoneText == AgentText("none", <<>>)
EmptyText == AgentText("empty", <<>>)
Narrative(lines) == AgentText("narrative", lines)
JsonArray(items) == AgentText("array", items)
JsonObject == AgentText("object", <<>>)
JsonFalsy == AgentText("falsy", <<>>)

\* bool(result) of an Optional[str]
TextTruthy(x) == x.t \notin {"none", "empty"}

\* the recovery chain with the oldest extracted content in place of the last
RecoverResultFirst(history) ==
    IF TextTruthy(history.final) THEN history.final
    ELSE IF history.extracted # <<>> THEN history.extracted[1]
         ELSE history.final

\* lines 63-72 and 103-109: the result recovered from the agent's history
RecoverResult(history) ==
    IF TextTruthy(history.final) THEN history.final
    ELSE IF history.extracted # <<>>
         THEN history.extracted[Len(history.extracted)]
         ELSE history.final

(***************************************************************************)
(* ui_generator.py: generate_scout_flex                                    *)
(***************************************************************************)
S_untitled == <<"U","n","t","i","t","l","e","d"," ","A","r","t","i","c","l","e">>

\* an element of the parsed array: a JSON object with these fields, or
\* anything else (null, a string, a number, a list)
Art(title, url, name, link) ==
    [kind |-> "dict", title |-> title, url |-> url, name |-> name, link |-> link]
NonDict == [kind |-> "nondict", title |-> Absent, url |-> Absent, name |-> Absent,
            link |-> Absent]

\* line 27
ItemTitle(art) == Or(Get(art, "title"), Or(Get(art, "name"), Str(S_untitled)))
\* line 28
ItemUrl(art) == Or(Get(art, "url"), Or(Get(art, "link"), Str(S_arxiv)))

postback_data_unquoted(domain_key, url) ==
    S_action \o <<"=">> \o S_summarize \o <<"&">> \o S_domain \o <<"=">> \o domain_key
        \o <<"&">> \o S_url \o <<"=">> \o url

\* line 31: urlencode({'action': 'summarize', 'domain': domain_key, 'url': url})
postback_data(domain_key, url) ==
    UrlEncode(<< <<S_action, S_summarize>>, <<S_domain, domain_key>>, <<S_url, url>> >>)

Separator == [c |-> "separator", title |-> <<>>, uri |-> <<>>, data |-> <<>>]
\* lines 33-54: the box of one article (title, open button, Deep Dive button)
Item(title, uri, data) == [c |-> "item", title |-> title, uri |-> uri, data |-> data]

\* lines 24-56: the loop, appending an item and a separator per article
RECURSIVE ArticleLoop(_, _)
ArticleLoop(articles, domain_key) ==
    IF articles = <<>> THEN <<>>
    ELSE LET art == Head(articles)
             url == ItemUrl(art).s
         IN  <<Item(ItemTitle(art).s, url, postback_data(domain_key, url)), Separator>>
                 \o ArticleLoop(Tail(articles), domain_key)

PopLastTwo(contents) ==
    IF Len(contents) >= 2 THEN SubSeq(contents, 1, Len(contents) - 2) ELSE <<>>

\* lines 58-60: remove the trailing separator
PopTrailingSeparator(contents) ==
    IF contents # <<>> /\ contents[Len(contents)].c = "separator"
    THEN SubSeq(contents, 1, Len(contents) - 1)
    ELSE contents

Rendered(msg) == [raised |-> FALSE, exc |-> NoExc, msg |-> msg]
RenderRaised(e) == [raised |-> TRUE, exc |-> e, msg |-> TextSendMessage(<<>>)]

\* generate_scout_flex(domain_name, articles_json_str, domain_key)
generate_scout_flex(domain_name, text, domain_key) ==
    IF text.t \in {"none", "empty", "narrative", "falsy"}
        \* json.loads raised (lines 14-17), or parsed to a falsy value
    THEN Rendered(TextSendMessage(<<Lit(NoResultsNoticeEn)>>))
    ELSE IF text.t = "array" /\ text.items = <<>>
    THEN Rendered(TextSendMessage(<<Lit(NoResultsNoticeEn)>>))
    ELSE IF text.t = "object"
        \* iterating a dict yields its keys: str has no .get
    THEN RenderRaised(Exc("", "'str' object has no attribute 'get'"))
    ELSE IF \E i \in 1..Len(text.items) : text.items[i].kind # "dict"
    THEN RenderRaised(Exc("", "object has no attribute 'get'"))
    ELSE Rendered([type |-> "flex",
                   alt_text |-> <<Chars(domain_name), Lit(" Report")>>,
                   header |-> <<Lit("<magnifier> "), Chars(domain_name),
                                Lit(" Scout Report")>>,
                   contents |-> PopTrailingSeparator(
                                    ArticleLoop(text.items, domain_key))])

(***************************************************************************)
(* ui_generator.py: generate_summary_flex                                  *)
(***************************************************************************)
\* the character U+3002, which the sentence split treats like "."
FullStops == {".", "<ideographic full stop>"}

\* the text of a narrative: its lines joined by newlines
RECURSIVE JoinLines(_)
JoinLines(lines) ==
    IF lines = <<>> THEN <<>>
    ELSE IF Len(lines) = 1 THEN lines[1].chars
    ELSE lines[1].chars \o <<"\n">> \o JoinLines(Tail(lines))

Component(c, line) == [c |-> c, line |-> line]

\* first index at or after i of a character of s that is not in C, Len(s) + 1
\* when there is none
RECURSIVE SkipChars(_, _, _)
SkipChars(s, C, i) == IF i <= Len(s) /\ s[i] \in C THEN SkipChars(s, C, i + 1) ELSE i

\* first index at or after i of a character of s that is in C, 0 when there
\* is none
RECURSIVE FirstIn(_, _, _)
FirstIn(s, C, i) ==
    IF i > Len(s) THEN 0
    ELSE IF s[i] \in C THEN i
    ELSE FirstIn(s, C, i + 1)

NoMatch == [found |-> FALSE, start |-> 0, group |-> 0, end |-> 0]

\* lines 84 and 88: a match of ^#{n}\s+(.+)$ (re.MULTILINE) that starts at
\* position i: n marks at the start of a line, whitespace (which may run over
\* line ends), then the group up to the end of its line.  The text is
\* stripped, so whitespace is always followed by a character.
HeadingMatchAt(text, n, i) ==
    LET k == SkipChars(text, Whitespace, i + n)
        nl == FirstIn(text, {"\n"}, k)
    IN
    IF /\ (i = 1 \/ text[i - 1] = "\n")
       /\ i + n <= Len(text)
       /\ \A j \in i..(i + n - 1) : text[j] = "#"
       /\ text[i + n] \in Whitespace
       /\ k <= Len(text)
    THEN [found |-> TRUE, start |-> i, group |-> k, end |-> IF nl = 0 THEN Len(text) ELSE nl - 1]
    ELSE NoMatch

\* re.search: the first match at or after position i
RECURSIVE SearchHeading(_, _, _)
SearchHeading(text, n, i) ==
    IF i > Len(text) THEN NoMatch
    ELSE LET m == HeadingMatchAt(text, n, i) IN
         IF m.found THEN m ELSE SearchHeading(text, n, i + 1)

\* re.finditer: the matches in order, each search starts where the last
\* match ended
RECURSIVE FindHeadings(_, _, _)
FindHeadings(text, n, i) ==
    LET m == SearchHeading(text, n, i) IN
    IF m.found THEN <<m>> \o FindHeadings(text, n, m.end + 1) ELSE <<>>

\* n stars at position i of s
Stars(s, n, i) == i + n - 1 <= Len(s) /\ \A j \in i..(i + n - 1) : s[j] = "*"

\* the closing stars of the shortest (.+?) whose last character is at j - 1:
\* the first j with n stars, reached without a line end; 0 when there is none
RECURSIVE ClosingAt(_, _, _)
ClosingAt(s, n, j) ==
    IF j + n - 1 > Len(s) \/ s[j - 1] = "\n" THEN 0
    ELSE IF Stars(s, n, j) THEN j
    ELSE ClosingAt(s, n, j + 1)

\* lines 95-96: re.sub(r'\*{n}(.+?)\*{n}', r'\1', s) from position i on
RECURSIVE StripEmphasis(_, _, _)
StripEmphasis(s, n, i) ==
    IF i > Len(s) THEN <<>>
    ELSE LET j == IF Stars(s, n, i) THEN ClosingAt(s, n, i + n + 1) ELSE 0 IN
         IF j = 0 THEN <<s[i]>> \o StripEmphasis(s, n, i + 1)
         ELSE SubSeq(s, i + n, j - 1) \o StripEmphasis(s, n, j + n)

\* lines 88-98: heading and body of the sections whose body is not empty
Sections(text) ==
    LET ms == FindHeadings(text, 3, 1)
        section(i) ==
            LET end == IF i < Len(ms) THEN ms[i + 1].start - 1 ELSE Len(text)
                body == Strip(SubSeq(text, ms[i].end + 1, end))
            IN  [heading |-> Strip(SubSeq(text, ms[i].group, ms[i].end)),
                 body |-> StripEmphasis(StripEmphasis(body, 2, 1), 1, 1)]
    IN  SelectSeq([i \in 1..Len(ms) |-> section(i)], LAMBDA s : s.body # <<>>)

\* [p.strip() for p in pieces if p.strip()]
NonEmptyStripped(pieces) ==
    SelectSeq([i \in 1..Len(pieces) |-> Strip(pieces[i])], LAMBDA p : p # <<>>)

\* line 116: re.split(r'[。\.]\s*', line)
RECURSIVE SplitSentences(_)
SplitSentences(line) ==
    LET i == FirstIn(line, FullStops, 1) IN
    IF i = 0 THEN <<line>>
    ELSE <<SubSeq(line, 1, i - 1)>>
             \o SplitSentences(SubSeq(line, SkipChars(line, Whitespace, i + 1), Len(line)))

\* lines 112-116: the bullets of one line of a body
LineBullets(line) ==
    IF Len(line) >= 2 /\ line[1] = "-" /\ line[2] = " "
    THEN <<SubSeq(line, 3, Len(line))>>
    ELSE NonEmptyStripped(SplitSentences(line))

\* lines 110-116: the bullets of the lines of a body
RECURSIVE Bullets(_)
Bullets(lines) ==
    IF lines = <<>> THEN <<>> ELSE LineBullets(Head(lines)) \o Bullets(Tail(lines))

\* lines 101-131: the components of the sections from the i-th on
RECURSIVE SectionComponents(_, _)
SectionComponents(sections, i) ==
    IF i > Len(sections) THEN <<>>
    ELSE LET lines == NonEmptyStripped(SplitOn(sections[i].body, "\n"))
             bullets == Bullets(lines)
         IN
         (IF i > 1 THEN <<Component("separator", <<>>)>> ELSE <<>>)
             \o <<Component("heading", sections[i].heading)>>
             \o [j \in 1..Len(bullets) |-> Component("bullet", bullets[j])]
             \o SectionComponents(sections, i + 1)

\* line 135: re.sub(r'#+\s*', '', text)
RECURSIVE RemoveHeadingMarks(_)
RemoveHeadingMarks(s) ==
    IF s = <<>> THEN <<>>
    ELSE IF Head(s) = "#"
    THEN RemoveHeadingMarks(
             SubSeq(s, SkipChars(s, Whitespace, SkipChars(s, {"#"}, 1)), Len(s)))
    ELSE <<Head(s)>> \o RemoveHeadingMarks(Tail(s))

\* generate_summary_flex(summary_text)
generate_summary_flex(summary) ==
    LET text == Strip(IF summary.t = "narrative" THEN JoinLines(summary.items) ELSE <<>>)
        title_match == SearchHeading(text, 2, 1)
        title == IF title_match.found
                 THEN Chars(Strip(SubSeq(text, title_match.group, title_match.end)))
                 ELSE Lit(DefaultTitle)
        body_contents == SectionComponents(Sections(text), 1)
        cleaned == SelectSeq(RemoveHeadingMarks(text), LAMBDA c : c # "*")
    IN  [type |-> "flex",
         alt_text |-> <<Lit("Deep Dive Analysis")>>,
         header |-> <<Lit("<memo> Deep Dive"), title>>,
         contents |-> IF body_contents = <<>>
                      THEN <<Component("raw", cleaned)>>
                      ELSE body_contents]

(***************************************************************************)
(* app.py: webhook events and background tasks                             *)
(***************************************************************************)
S_help == <<"h","e","l","p">>
S_Custom == <<"C","u","s","t","o","m">>
\* line 84; the two Chinese commands are one symbol each
HelpCommands == {S_help, <<"/">> \o S_help, <<"<zh:explain>">>, <<"<zh:usage>">>}

NoTask ==
    [kind |-> "none", pc |-> "none", config |-> NoConfig, url |-> <<>>,
     domain_key |-> <<>>, agent_calls |-> 0, outcome |-> "none",
     result |-> NoneText, failure |-> NoExc, escaped |-> NoExc]

\* the coroutine run_agent_and_reply(user_id, config), not yet started
DiscoveryTask(config) ==
    [NoTask EXCEPT !.kind = "discovery", !.pc = "scheduled", !.config = config]

\* the coroutine run_summary_and_reply(user_id, url, domain_key), not yet started
SummaryTask(url, domain_key) ==
    [NoTask EXCEPT !.kind = "summary", !.pc = "scheduled", !.url = url,
                   !.domain_key = domain_key]

\* a webhook event being handled: what came in, the calls the handler and
\* its task made in order (ops), the replies sent on the reply token, the
\* background task, and the messages pushed to the user
NewRequest(kind, input) ==
    [kind |-> kind, input |-> input, cls |-> ClsNotCalled, handler |-> "running",
     ops |-> <<>>, replies |-> <<>>, task |-> NoTask, pushes |-> <<>>]

\* line_bot_api.reply_message(token, msg); it raises when ok is false
Reply(r, msg, ok) ==
    IF ok THEN [r EXCEPT !.ops = @ \o <<"reply">>, !.replies = @ \o <<msg>>]
    ELSE [r EXCEPT !.ops = @ \o <<"reply">>, !.handler = "raised"]

\* the handler returns to handler.handle unless it has raised
Return(r) ==
    IF r.handler = "raised" THEN r
    ELSE [r EXCEPT !.ops = @ \o <<"return">>, !.handler = "returned"]

DispatchTaskFirst(r, ack, task, ok) ==
    Return(Reply([r EXCEPT !.ops = @ \o <<"create_task">>, !.task = task], ack, ok))

\* lines 109-113 and 129-133: reply with the acknowledgment, then
\* asyncio.create_task(...), then return
Dispatch(r, ack, task, ok) ==
    LET replied == Reply(r, ack, ok) IN
    IF replied.handler = "raised" THEN replied
    ELSE Return([replied EXCEPT !.ops = @ \o <<"create_task">>, !.task = task])

UnguardedIntent(files, user_text, cls) == parse_intent(files, user_text, cls)

\* lines 93-97: parse_intent inside try/except, None when it raised
GuardedIntent(files, user_text, cls) ==
    LET got == parse_intent(files, user_text, cls) IN
    IF got.t = "raise" THEN IntentNone ELSE got

\* handle_message(event)
handle_message(files, text, cls, replyOk) ==
    LET user_text == Strip(text)
        r0 == NewRequest("message", text)
        help == generate_help_flex(list_available_domains(files))
    IN  IF Lower(user_text) \in HelpCommands THEN Return(Reply(r0, help, replyOk))
        ELSE LET r1 == [r0 EXCEPT !.cls = cls, !.ops = <<"classify">>]
                 got == GuardedIntent(files, user_text, cls)
             IN  IF got.t = "raise" THEN [r1 EXCEPT !.handler = "raised"]
                 ELSE IF got.t = "none" THEN Return(Reply(r1, help, replyOk))
                 ELSE LET domain_label == GetDefault(got.config, "domain", Str(S_Custom))
                          ack == TextSendMessage(<<Lit(AckSearchPrefix),
                                     Chars(domain_label.s), Lit(AckSearchSuffix)>>)
                      IN  Dispatch(r1, ack, DiscoveryTask(got.config), replyOk)

\* lines 124-128: what handle_postback reads from the postback data
DecodePostback(data) ==
    LET params == ParseQs(data) IN
    [action |-> ParamsGet(params, S_action, <<>>),
     url |-> ParamsGet(params, S_url, <<>>),
     domain |-> ParamsGet(params, S_domain, S_aiops)]

\* handle_postback(event)
handle_postback(data, replyOk) ==
    LET r0 == NewRequest("postback", data)
        params == DecodePostback(data)
    IN  IF params.action = S_summarize
        THEN Dispatch(r0, TextSendMessage(<<Lit(AckSummary)>>),
                      SummaryTask(params.url, params.domain), replyOk)
        ELSE Return(r0)

\* a push that sends the message a second time
PushTwice(r, msg, ok) ==
    IF ok THEN [r EXCEPT !.ops = @ \o <<"push", "push">>, !.pushes = @ \o <<msg, msg>>]
    ELSE [r EXCEPT !.ops = @ \o <<"push">>]

\* line_bot_api.push_message(user_id, msg) inside the try block: delivered,
\* or it raised
Push(r, msg, ok) ==
    IF ok THEN [r EXCEPT !.ops = @ \o <<"push">>, !.pushes = @ \o <<msg>>]
    ELSE [r EXCEPT !.ops = @ \o <<"push">>]

\* the task ran to its end
Finish(r) == [r EXCEPT !.task.pc = "done"]

\* an except block of a task: push msg; when that push raises too, the
\* exception leaves the coroutine
ExceptPush(r, e, msg, ok) ==
    IF ok THEN Finish(Push([r EXCEPT !.task.failure = e], msg, TRUE))
    ELSE [Push([r EXCEPT !.task.failure = e], msg, FALSE)
             EXCEPT !.task.pc = "crashed", !.task.escaped = Exc("", "push failed")]

\* line 43: the text pushed by the except block of run_agent_and_reply
ScoutErrorMessage(domain_label, e) ==
    TextSendMessage(<<Lit(ScoutErrorPrefix), Chars(domain_label), Lit(ScoutErrorSep)>>
                        \o ExcText(e))

\* line 61: the text pushed by the except block of run_summary_and_reply
SummaryErrorMessage(e) == TextSendMessage(<<Lit(SummaryErrorPrefix)>> \o ExcText(e))

\* one await of agent.run(max_steps=10): it raised, or returned a history
AgentRaised(cause) == [t |-> "raise", cause |-> cause, final |-> NoneText,
                       extracted |-> <<>>]
AgentHistory(final, extracted) ==
    [t |-> "history", cause |-> "", final |-> final, extracted |-> extracted]

\* run_agent_and_reply up to the await of agent.run (lines 28-31, 53-60)
discovery_start(r, ctorOk, pushOk) ==
    LET domain_label == GetDefault(r.task.config, "domain", Str(S_Custom)).s IN
    IF ~ctorOk
    THEN LET e == Exc("", "ScoutAgent construction failed") IN
         ExceptPush(r, e, ScoutErrorMessage(domain_label, e), pushOk)
    ELSE [r EXCEPT !.ops = @ \o <<"agent_run">>, !.task.pc = "awaiting",
                   !.task.agent_calls = @ + 1]

\* run_agent_and_reply from the return of agent.run to its end (lines 60-74
\* of scout_agent.py, then lines 33-44 of app.py)
discovery_resume(r, outcome, pushOk, handlerPushOk) ==
    LET config == r.task.config
        domain_label == GetDefault(config, "domain", Str(S_Custom)).s
        handler(q, e) == ExceptPush(q, e, ScoutErrorMessage(domain_label, e), handlerPushOk)
    IN  IF outcome.t = "raise"
        THEN handler([r EXCEPT !.task.outcome = "raised"],
                     Exc(DiscoveryFailed, outcome.cause))
        ELSE LET result_json == RecoverResult(outcome)
                 r1 == [r EXCEPT !.task.outcome = "returned",
                                 !.task.result = result_json]
             IN  IF result_json.t = "none"
                 THEN IF pushOk
                      THEN Finish(Push(r1, TextSendMessage(<<Lit(NoResultsNoticeZh)>>), TRUE))
                      ELSE handler(Push(r1, TextSendMessage(<<>>), FALSE),
                                   Exc("", "push failed"))
                 ELSE LET flex == generate_scout_flex(
                                      Upper(domain_label), result_json,
                                      GetDefault(config, "_domain_key", Str(S_aiops)).s)
                      IN  IF flex.raised THEN handler(r1, flex.exc)
                          ELSE IF pushOk THEN Finish(Push(r1, flex.msg, TRUE))
                          ELSE handler(Push(r1, flex.msg, FALSE), Exc("", "push failed"))

ResolveSummaryConfigNoFallback(files, domain_key) == load_config(files, domain_key)

\* lines 53-56: the stored config of domain_key, the one of 'aiops' when
\* load_config raised FileNotFoundError
ResolveSummaryConfig(files, domain_key) ==
    LET first == load_config(files, domain_key) IN
    IF first.raised THEN load_config(files, S_aiops) ELSE first

\* run_summary_and_reply up to the await of agent.run (lines 50-58, 81-101)
summary_start(files, r, ctorOk, pushOk) ==
    LET loaded == ResolveSummaryConfig(files, r.task.domain_key)
        handler(q, e) == ExceptPush(q, e, SummaryErrorMessage(e), pushOk)
    IN  IF loaded.raised THEN handler(r, loaded.exc)
        ELSE LET r1 == [r EXCEPT !.task.config = loaded.config] IN
             IF ~ctorOk THEN handler(r1, Exc("", "ScoutAgent construction failed"))
             ELSE [r1 EXCEPT !.ops = @ \o <<"agent_run">>, !.task.pc = "awaiting",
                             !.task.agent_calls = @ + 1]

\* run_summary_and_reply from the return of agent.run to its end (lines
\* 101-111 of scout_agent.py, then lines 59-61 of app.py)
summary_resume(r, outcome, pushOk, handlerPushOk) ==
    LET handler(q, e) == ExceptPush(q, e, SummaryErrorMessage(e), handlerPushOk) IN
    IF outcome.t = "raise"
    THEN handler([r EXCEPT !.task.outcome = "raised"], Exc(SummaryFailed, outcome.cause))
    ELSE LET summary == RecoverResult(outcome)
             r1 == [r EXCEPT !.task.outcome = "returned", !.task.result = summary]
             flex == generate_summary_flex(summary)
         IN  IF pushOk THEN Finish(Push(r1, flex, TRUE))
             ELSE handler(Push(r1, flex, FALSE), Exc("", "push failed"))

(***************************************************************************)
(* Inputs                                                                  *)
(***************************************************************************)
T_qc == <<"q"," ","c">>
T_one == <<"T","1">>
T_two == <<"T","2">>
\* "https://x.com/a"
U_plain == <<"h","t","t","p","s",":","/","/","x",".","c","o","m","/","a">>
\* "https://x.com/a?b=c&d=e"
U_query == U_plain \o <<"?","b","=","c","&","d","=","e">>
\* "https://x.com/a b+c%26"
U_odd == U_plain \o <<" ","b","+","c","%","2","6">>

UserTexts == {<<" ","H","e","l","p"," ">>, T_qc}

ClsOutcomes ==
    {ClsRaise,
     ClsUnparsable,
     ClsObject(PyFalse, PyNone, Str(<<>>), Str(<<>>)),
     ClsObject(Absent, Str(S_aiops), Str(S_aiops), Str(S_aiops)),
     ClsObject(PyTrue, Str(S_aiops), Str(S_aiops), Str(S_aiops)),
     ClsObject(PyTrue, Str(<<"z">>), Str(<<"a","&","b","=","c">>), PyNone)}

\* the elements an agent's JSON array is built from
ValidArticles == {Art(Str(T_one), Str(U_plain), Absent, Absent),
                  Art(Str(T_two), Str(U_query), Absent, Absent)}
\* with them the records that lack a title or a url, and a non-record
Elements ==
    ValidArticles
        \cup {Art(Absent, Str(U_odd), Absent, Absent),
              Art(Str(T_one), PyNone, Absent, Absent),
              Art(Str(<<>>), Absent, Str(T_two), Str(U_query)),
              NonDict}

RECURSIVE SeqsUpTo(_, _)
\* the sequences over S of length at most n
SeqsUpTo(S, n) ==
    IF n = 0 THEN {<<>>}
    ELSE LET shorter == SeqsUpTo(S, n - 1) IN
         shorter \cup {Append(q, x) : q \in {p \in shorter : Len(p) = n - 1}, x \in S}

\* "no match"
ProseLines == <<TextLine(<<"n","o"," ","m","a","t","c","h">>)>>
\* "## T1", "### Aim", "- one", "- two"
SummaryLines ==
    <<TextLine(<<"#","#"," ">> \o T_one),
      TextLine(<<"#","#","#"," ","A","i","m">>),
      TextLine(<<"-"," ","o","n","e">>),
      TextLine(<<"-"," ","t","w","o">>)>>

OneArticle == JsonArray(<<Art(Str(T_two), Str(U_query), Absent, Absent)>>)

\* what agent.run can produce in the discovery phase
DiscoveryOutcomes ==
    {AgentRaised("agent fault")} \cup
    {AgentHistory(f, e) :
        f \in {NoneText, Narrative(ProseLines), OneArticle, JsonArray(<<NonDict>>)},
        e \in {<<>>, <<OneArticle>>}}

\* what agent.run can produce in the summary phase
SummaryOutcomes ==
    {AgentRaised("agent fault")} \cup
    {AgentHistory(f, e) : f \in {NoneText, Narrative(SummaryLines)},
                          e \in {<<>>, <<Narrative(SummaryLines)>>}}

\* the domain keys a Deep Dive button can carry
DomainKeys == {S_aiops, S_stocks, S_custom \o T_qc, S_custom \o <<"a","&","b","=","c">>}

\* "zz": the key of a configuration that is no longer in the store
S_gone == <<"z","z">>
\* data of a Deep Dive button that carries no domain
NoDomainData == UrlEncode(<< <<S_action, S_summarize>>, <<S_url, U_plain>> >>)

\* postback data: the buttons generate_scout_flex renders, a button of an
\* older card without a domain, and a postback of another kind
PostbackInputs ==
    {postback_data(k, U_query) : k \in {S_stocks, S_gone, S_custom \o T_qc}}
        \cup {NoDomainData,
              UrlEncode(<< <<S_action, <<"o","p","e","n">> >>, <<S_url, U_plain>> >>)}

(***************************************************************************)
(* Specification of the webhook and its background tasks                   *)
(***************************************************************************)
NoRenderOut == [done |-> FALSE, result |-> Rendered(TextSendMessage(<<>>)),
                pressed |-> 0, task |-> NoTask]

Init ==
    /\ reqs = EmptyBag
    /\ renderIn = [domain_key |-> <<>>, text |-> NoneText]
    /\ renderOut = NoRenderOut

Requests == BagToSet(reqs)
Replace(r, q) == (reqs (-) SetToBag({r})) (+) SetToBag({q})

\* handle_message run to its return on each text message that can arrive
MessageEvents ==
    {handle_message(DomainConfigDir, text, cls, replyOk) :
        text \in UserTexts, cls \in ClsOutcomes, replyOk \in BOOLEAN}

\* handle_postback run to its return on each postback that can arrive
PostbackEvents ==
    {handle_postback(data, replyOk) : data \in PostbackInputs, replyOk \in BOOLEAN}

\* a text message arrives and handle_message runs to its return
HandleMessage ==
    /\ BagCardinality(reqs) < MaxEvents
    /\ \E handled \in MessageEvents : reqs' = reqs (+) SetToBag({handled})
    /\ UNCHANGED <<renderIn, renderOut>>

\* a postback event arrives and handle_postback runs to its return
HandlePostback ==
    /\ BagCardinality(reqs) < MaxEvents
    /\ \E handled \in PostbackEvents : reqs' = reqs (+) SetToBag({handled})
    /\ UNCHANGED <<renderIn, renderOut>>

\* the event loop starts a scheduled run_agent_and_reply
DiscoveryStart ==
    /\ \E r \in Requests, ctorOk \in BOOLEAN, pushOk \in BOOLEAN :
          /\ r.task.kind = "discovery" /\ r.task.pc = "scheduled"
          /\ reqs' = Replace(r, discovery_start(r, ctorOk, pushOk))
    /\ UNCHANGED <<renderIn, renderOut>>

\* agent.run ends and run_agent_and_reply runs to its end
DiscoveryResume ==
    /\ \E r \in Requests, outcome \in DiscoveryOutcomes,
          pushOk \in BOOLEAN, handlerPushOk \in BOOLEAN :
          /\ r.task.kind = "discovery" /\ r.task.pc = "awaiting"
          /\ reqs' = Replace(r, discovery_resume(r, outcome, pushOk, handlerPushOk))
    /\ UNCHANGED <<renderIn, renderOut>>

\* the event loop starts a scheduled run_summary_and_reply
SummaryStart ==
    /\ \E r \in Requests, ctorOk \in BOOLEAN, pushOk \in BOOLEAN :
          /\ r.task.kind = "summary" /\ r.task.pc = "scheduled"
          /\ reqs' = Replace(r, summary_start(DomainConfigDir, r, ctorOk, pushOk))
    /\ UNCHANGED <<renderIn, renderOut>>

\* agent.run ends and run_summary_and_reply runs to its end
SummaryResume ==
    /\ \E r \in Requests, outcome \in SummaryOutcomes,
          pushOk \in BOOLEAN, handlerPushOk \in BOOLEAN :
          /\ r.task.kind = "summary" /\ r.task.pc = "awaiting"
          /\ reqs' = Replace(r, summary_resume(r, outcome, pushOk, handlerPushOk))
    /\ UNCHANGED <<renderIn, renderOut>>

Next ==
    \/ HandleMessage
    \/ HandlePostback
    \/ DiscoveryStart
    \/ DiscoveryResume
    \/ SummaryStart
    \/ SummaryResume

Spec == Init /\ [][Next]_vars

(***************************************************************************)
(* Specification of discovery rendering and of the Deep Dive buttons       *)
(***************************************************************************)
\* what the agent's text can be when it is handed to generate_scout_flex
RenderTexts ==
    {EmptyText, Narrative(ProseLines), JsonObject, JsonFalsy}
        \cup {JsonArray(a) : a \in SeqsUpTo(Elements, MaxArticles)}

\* the Deep Dive buttons of a rendered message, in order
Buttons(msg) ==
    IF msg.type = "flex" THEN SelectSeq(msg.contents, LAMBDA c : c.c = "item") ELSE <<>>

\* generate_scout_flex is applied to a domain key and an agent text
RenderDiscovery ==
    /\ ~renderOut.done
    /\ \E k \in DomainKeys, text \in RenderTexts :
          /\ renderIn' = [domain_key |-> k, text |-> text]
          /\ renderOut' = [done |-> TRUE,
                           result |-> generate_scout_flex(Upper(k), text, k),
                           pressed |-> 0, task |-> NoTask]
    /\ UNCHANGED reqs

\* the user presses the i-th Deep Dive button of the rendered card and
\* handle_postback decodes its data
PressButton ==
    /\ renderOut.done /\ ~renderOut.result.raised /\ renderOut.pressed = 0
    /\ \E i \in 1..Len(Buttons(renderOut.result.msg)) :
          renderOut' = [renderOut EXCEPT
                           !.pressed = i,
                           !.task = handle_postback(
                                        Buttons(renderOut.result.msg)[i].data, TRUE).task]
    /\ UNCHANGED <<reqs, renderIn>>

NextRender == RenderDiscovery \/ PressButton

SpecRender == Init /\ [][NextRender]_vars

(***************************************************************************)
(* Specification of the recovery chain of run_discovery and run_summary    *)
(***************************************************************************)
\* the histories of a finished run: final_result() is None, an empty string
\* or a text, and extracted_content() holds up to MaxExtracted non-empty
\* texts, oldest first
RecoverDiscoveryHistories ==
    {AgentHistory(f, e) :
        f \in {NoneText, EmptyText,
               JsonArray(<<Art(Str(T_one), Str(U_plain), Absent, Absent)>>)},
        e \in SeqsUpTo({Narrative(ProseLines), OneArticle, JsonArray(<<NonDict>>)},
                       MaxExtracted)}
RecoverSummaryHistories ==
    {AgentHistory(f, e) :
        f \in {NoneText, EmptyText, Narrative(SummaryLines)},
        e \in SeqsUpTo({Narrative(ProseLines), Narrative(Tail(SummaryLines))},
                       MaxExtracted)}

\* a discovery task runs up to agent.run, which returns a history, and
\* run_discovery and run_agent_and_reply run to their end
RecoverDiscovery ==
    /\ ~renderOut.done
    /\ \E m \in MessageEvents, h \in RecoverDiscoveryHistories, pushOk \in BOOLEAN :
          /\ m.task.kind = "discovery"
          /\ renderIn' = [phase |-> "discovery", history |-> h]
          /\ reqs' = SetToBag({discovery_resume(discovery_start(m, TRUE, TRUE),
                                                h, pushOk, TRUE)})
    /\ renderOut' = [renderOut EXCEPT !.done = TRUE]

\* a summary task runs up to agent.run, which returns a history, and
\* run_summary and run_summary_and_reply run to their end
RecoverSummary ==
    /\ ~renderOut.done
    /\ \E m \in PostbackEvents, h \in RecoverSummaryHistories, pushOk \in BOOLEAN :
          /\ m.task.kind = "summary"
          /\ renderIn' = [phase |-> "summary", history |-> h]
          /\ reqs' = SetToBag({summary_resume(
                                   summary_start(DomainConfigDir, m, TRUE, TRUE),
                                   h, pushOk, TRUE)})
    /\ renderOut' = [renderOut EXCEPT !.done = TRUE]

NextRecover == RecoverDiscovery \/ RecoverSummary

SpecRecover == Init /\ [][NextRecover]_vars

(***************************************************************************)
(* Specification of summary rendering                                      *)
(***************************************************************************)
\* what run_summary can hand to generate_summary_flex: None, the empty
\* string, and the texts of up to MaxLines of the lines "## T1", "### H", "### G", "###",
\* "- a", "a. b", ".", "* *", "**a**" and the empty line
SummaryTexts ==
    LET lines == {TextLine(<<"#","#"," ">> \o T_one),
     TextLine(<<"#","#","#"," ","H">>),
     TextLine(<<"#","#","#"," ","G">>),
     TextLine(<<"#","#","#">>),
     TextLine(<<"-"," ","a">>),
     TextLine(<<"a","."," ","b">>),
     TextLine(<<".">>),
     TextLine(<<"*"," ","*">>),
     TextLine(<<"*","*","a","*","*">>),
     TextLine(<<>>)}
    IN  {NoneText, EmptyText}
            \cup {Narrative(l) : l \in SeqsUpTo(lines, MaxLines) \ {<<>>}}

\* generate_summary_flex is applied to a summary text
RenderSummary ==
    /\ ~renderOut.done
    /\ \E summary \in SummaryTexts :
          /\ renderIn' = [domain_key |-> <<>>, text |-> summary]
          /\ renderOut' = [renderOut EXCEPT
                              !.done = TRUE,
                              !.result = Rendered(generate_summary_flex(summary))]
    /\ UNCHANGED reqs

SpecSummary == Init /\ [][RenderSummary]_vars

(***************************************************************************)
(* Properties                                                              *)
(***************************************************************************)
\* position of the first op named o in ops, 0 when there is none
OpIndex(ops, o) ==
    LET idx == {i \in 1..Len(ops) : ops[i] = o} IN
    IF idx = {} THEN 0 ELSE CHOOSE i \in idx : \A j \in idx : i <= j

HasLit(msg, l) == \E i \in 1..Len(msg.text) : msg.text[i].lit = l
HasChars(msg, s) == \E i \in 1..Len(msg.text) : msg.text[i].lit = "" /\ msg.text[i].chars = s

HelpCard == generate_help_flex(list_available_domains(DomainConfigDir))
NoResultsMessage == TextSendMessage(<<Lit(NoResultsNoticeEn)>>)

\* the task of r has run to its end, normally or not
Ended(r) == r.task.pc \in {"done", "crashed"}

\* the message names the phase that failed
NamesPhase(r, msg) ==
    IF r.task.kind = "discovery"
    THEN HasLit(msg, ScoutErrorPrefix) /\ HasLit(msg, DiscoveryFailed)
    ELSE HasLit(msg, SummaryErrorPrefix) /\ HasLit(msg, SummaryFailed)

\* the message names the domain of the task: its label or its key
NamesDomain(r, msg) ==
    \/ HasChars(msg, GetDefault(r.task.config, "domain", Str(S_Custom)).s)
    \/ HasChars(msg, r.task.domain_key)

\* C1: whenever agent.run raised in the discovery or the summary phase, the
\* task has ended normally after pushing exactly one plain-text message that
\* names the failed phase and the domain.
C1_AgentFailureSurfaced ==
    \A r \in Requests :
        (r.task.outcome = "raised" /\ Ended(r)) =>
            /\ r.task.pc = "done"
            /\ Len(r.pushes) = 1
            /\ r.pushes[1].type = "text"
            /\ NamesPhase(r, r.pushes[1])
            /\ NamesDomain(r, r.pushes[1])

\* C2: no failure of any step leaves a background task: every task that
\* ended, ended normally, with no exception escaping the coroutine.
C2_NoExceptionLeavesTask ==
    \A r \in Requests : Ended(r) => (r.task.pc = "done" /\ r.task.escaped = NoExc)

\* the acknowledgment a request with a task was answered with
IsAck(r, msg) ==
    /\ msg.type = "text"
    /\ IF r.kind = "message" THEN HasLit(msg, AckSearchPrefix) ELSE HasLit(msg, AckSummary)

\* the order of the calls of an accepted request: acknowledgment, then
\* create_task, then the return of the handler, and only then the task's
\* agent run and pushes
AckThenTask(r) ==
    LET ret == OpIndex(r.ops, "return") IN
    /\ r.handler = "returned"
    /\ Len(r.replies) = 1 /\ IsAck(r, r.replies[1])
    /\ 0 < OpIndex(r.ops, "reply")
    /\ OpIndex(r.ops, "reply") < OpIndex(r.ops, "create_task")
    /\ OpIndex(r.ops, "create_task") < ret
    /\ \A i \in 1..Len(r.ops) : r.ops[i] \in {"agent_run", "push"} => i > ret
    /\ (r.task.pc = "scheduled" => Len(r.ops) = ret)

\* the calls a handler made before it returned
ResponsePath(r) ==
    LET ret == OpIndex(r.ops, "return") IN
    SubSeq(r.ops, 1, IF ret = 0 THEN Len(r.ops) ELSE ret)

\* C3 as stated: every accepted request is acknowledged before its task is
\* scheduled, the task's agent run and pushes come after the handler
\* returned, and the acknowledgment is the only blocking call of the
\* response path.
C3_OnlyAckOnResponsePath ==
    \A r \in Requests :
        r.task.kind # "none" =>
            /\ AckThenTask(r)
            /\ ResponsePath(r) = <<"reply", "create_task", "return">>

\* C3 amended: the same order holds, and the response path of a postback
\* is the acknowledgment alone, while the response path of a text message
\* is the classifier call followed by the acknowledgment; requests without
\* a task never run the agent or push.
C3_AckBeforeTask ==
    \A r \in Requests :
        /\ r.task.kind # "none" =>
              /\ AckThenTask(r)
              /\ ResponsePath(r) =
                    IF r.kind = "message"
                    THEN <<"classify", "reply", "create_task", "return">>
                    ELSE <<"reply", "create_task", "return">>
        /\ r.task.kind = "none" =>
              /\ r.pushes = <<>>
              /\ \A i \in 1..Len(r.ops) : r.ops[i] \notin {"create_task", "agent_run", "push"}

C3_Witness ==
    \E r \in Requests, q \in Requests :
        /\ r.kind = "message" /\ r.task.pc = "done" /\ Len(r.pushes) = 1
        /\ q.kind = "postback" /\ q.task.pc = "scheduled" /\ q.handler = "returned"

\* the classifier answered with an object that does not flag a request
NotAScoutRequest(r) ==
    /\ r.kind = "message"
    /\ r.cls.t = "object"
    /\ ~Truthy(Get(r.cls, "is_scout_request"))

\* C4: when the classifier reports no scouting request (flag false or
\* absent), parse_intent returns None and the only thing handle_message
\* does is reply with the help card: no acknowledgment, no task, no agent.
C4_NonRequestGetsHelpOnly ==
    \A r \in Requests :
        NotAScoutRequest(r) =>
            /\ parse_intent(DomainConfigDir, Strip(r.input), r.cls) = IntentNone
            /\ r.task = NoTask
            /\ r.pushes = <<>>
            /\ r.ops \in {<<"classify", "reply", "return">>, <<"classify", "reply">>}
            /\ \A i \in 1..Len(r.replies) : r.replies[i] = HelpCard
            /\ (r.handler = "returned" => r.replies = <<HelpCard>>)

C4_Witness ==
    /\ \E r \in Requests :
          /\ NotAScoutRequest(r) /\ r.cls.is_scout_request = PyFalse
          /\ r.replies = <<HelpCard>>
    /\ \E r \in Requests :
          /\ NotAScoutRequest(r) /\ r.cls.is_scout_request = Absent
          /\ r.replies = <<HelpCard>>

\* the classifier call raised or its output is not JSON
ClassifierFailed(r) == r.kind = "message" /\ r.cls.t \in {"raise", "unparsable"}

\* C5 as stated: when the classifier call raises or returns unparsable
\* output, parse_intent itself returns None.
C5_ParseIntentReturnsNone ==
    \A r \in Requests :
        ClassifierFailed(r) =>
            parse_intent(DomainConfigDir, Strip(r.input), r.cls) = IntentNone

\* C5 amended: on unparsable output parse_intent returns None; when the
\* call raises, parse_intent raises and handle_message catches it; in both
\* cases handle_message goes on to reply with the help card, schedules
\* nothing, and fails only if that reply itself fails.
C5_ClassifierFailureShowsHelp ==
    \A r \in Requests :
        ClassifierFailed(r) =>
            /\ parse_intent(DomainConfigDir, Strip(r.input), r.cls).t =
                  (IF r.cls.t = "raise" THEN "raise" ELSE "none")
            /\ r.task = NoTask
            /\ r.pushes = <<>>
            /\ \/ r.handler = "returned" /\ r.replies = <<HelpCard>>
                  /\ r.ops = <<"classify", "reply", "return">>
               \/ r.handler = "raised" /\ r.replies = <<>>
                  /\ r.ops = <<"classify", "reply">>

C5_Witness ==
    /\ \E r \in Requests : r.cls.t = "raise" /\ r.replies = <<HelpCard>>
    /\ \E r \in Requests : r.cls.t = "unparsable" /\ r.replies = <<HelpCard>>

\* the configuration a Deep Dive for domain_key must run with
ExpectedSummaryConfig(domain_key) ==
    IF Lower(domain_key) \in DomainConfigDir
    THEN StoredConfig(Lower(domain_key))
    ELSE StoredConfig(S_aiops)

\* C6: whatever domain key the action token carried, a summary task that
\* got past its configuration step runs with the stored configuration of
\* that key when there is one and with the one of 'aiops' otherwise, has
\* not reported a missing configuration, and has gone on to the agent run
\* (unless constructing the agent failed).
C6_DeepDiveConfigFallsBack ==
    \A r \in Requests :
        (r.task.kind = "summary" /\ r.task.pc # "scheduled") =>
            /\ r.task.config = ExpectedSummaryConfig(r.task.domain_key)
            /\ r.task.failure.cause # "Domain configuration not found"
            /\ \/ r.task.agent_calls = 1 /\ OpIndex(r.ops, "agent_run") > 0
               \/ r.task.failure.cause = "ScoutAgent construction failed"

C6_Witness ==
    /\ \E r \in Requests :
          /\ r.task.kind = "summary" /\ r.task.domain_key = S_custom \o T_qc
          /\ r.task.pc = "done" /\ r.task.outcome = "returned"
          /\ r.task.config = StoredConfig(S_aiops)
          /\ Len(r.pushes) = 1 /\ r.pushes[1].type = "flex"
    /\ \E r \in Requests :
          /\ r.task.kind = "summary"
          /\ \/ r.task.domain_key = S_stocks /\ r.task.config = StoredConfig(S_stocks)
             \/ r.task.domain_key = S_gone /\ r.task.config = StoredConfig(S_aiops)
             \/ r.input = NoDomainData /\ r.task.config = StoredConfig(S_aiops)
          /\ r.task.pc = "awaiting"

\* C7: pressing a Deep Dive button starts a summary task whose url is the
\* url the button was rendered for and whose domain key is the key the
\* card was rendered with: the token's encoding and decoding are inverse.
C7_TokenRoundTrip ==
    renderOut.pressed > 0 =>
        LET button == Buttons(renderOut.result.msg)[renderOut.pressed] IN
        /\ DecodePostback(button.data).action = S_summarize
        /\ renderOut.task.kind = "summary"
        /\ renderOut.task.url = button.uri
        /\ renderOut.task.domain_key = renderIn.domain_key

C7_Witness ==
    /\ renderOut.pressed > 0
    /\ renderIn.domain_key = S_custom \o <<"a","&","b","=","c">>
    /\ Buttons(renderOut.result.msg)[renderOut.pressed].uri = U_query
    /\ renderOut.task.url = U_query

\* the renderer was given the JSON text of an array
RenderedArray == renderOut.done /\ renderIn.text.t = "array"

\* C8: for an array of N records that each have a title and a url, the
\* card has exactly N link items, in the order of the records, each with
\* the record's title and url and a token that decodes to that url and the
\* given domain key; for N = 0 the result is the 'no results' notice.
C8_OneItemPerRecord ==
    (RenderedArray /\ \A i \in 1..Len(renderIn.text.items) :
                          renderIn.text.items[i] \in ValidArticles) =>
        LET items == renderIn.text.items
            out == renderOut.result
        IN  IF items = <<>> THEN out = Rendered(NoResultsMessage)
            ELSE /\ ~out.raised
                 /\ out.msg.type = "flex"
                 /\ Len(Buttons(out.msg)) = Len(items)
                 /\ \A i \in 1..Len(items) :
                       LET b == Buttons(out.msg)[i] IN
                       /\ b.title = items[i].title.s
                       /\ b.uri = items[i].url.s
                       /\ DecodePostback(b.data) =
                             [action |-> S_summarize, url |-> items[i].url.s,
                              domain |-> renderIn.domain_key]

C8_Witness ==
    /\ RenderedArray
    /\ Len(renderIn.text.items) = MaxArticles
    /\ renderIn.text.items[1] # renderIn.text.items[2]
    /\ \A i \in 1..Len(renderIn.text.items) : renderIn.text.items[i] \in ValidArticles
    /\ Len(Buttons(renderOut.result.msg)) = MaxArticles

\* C9: a discovery result that is prose (a non-empty string that is not
\* JSON) is pushed as a block of that text, never as the 'no results'
\* notice and never as a failure.
C9_NarrativeNotNoResults ==
    \A r \in Requests :
        (r.task.kind = "discovery" /\ r.task.pc = "done"
            /\ r.task.result.t = "narrative" /\ Len(r.pushes) = 1) =>
            /\ r.pushes[1] # NoResultsMessage
            /\ ~HasLit(r.pushes[1], ScoutErrorPrefix)

\* the record has no usable value for the field
Lacks(art, field) == ~Truthy(Get(art, field))

\* C10: every element of a non-empty parsed array is kept as an item, a
\* missing, null or empty title replaced by the placeholder title and a
\* missing, null or empty url by the default landing page; rendering
\* never raises, whatever the element is.
C10_LackingRecordsKept ==
    (RenderedArray /\ renderIn.text.items # <<>>) =>
        LET items == renderIn.text.items
            out == renderOut.result
        IN  /\ ~out.raised
            /\ Len(Buttons(out.msg)) = Len(items)
            /\ \A i \in 1..Len(items) :
                  /\ Lacks(items[i], "title") => Buttons(out.msg)[i].title = S_untitled
                  /\ Lacks(items[i], "url") => Buttons(out.msg)[i].uri = S_arxiv
\* C11: when agent.run returns, run_discovery and run_summary return the
\* agent's final result if it is present, otherwise the last extracted
\* content if there is any, otherwise an empty result; so the result is
\* empty only if the final result is absent and nothing was extracted
C11_RecoveryChain ==
    renderOut.done =>
        \A r \in Requests :
            LET final == renderIn.history.final
                extracted == renderIn.history.extracted
                result == r.task.result
            IN  /\ r.task.kind = renderIn.phase
                /\ r.task.outcome = "returned"
                /\ IF TextTruthy(final) THEN result = final
                   ELSE IF extracted # <<>> THEN result = extracted[Len(extracted)]
                   ELSE ~TextTruthy(result)
                /\ ~TextTruthy(result) => ~TextTruthy(final) /\ extracted = <<>>

\* a run without a final result that extracted two different contents, and
\* the later one was returned
C11_Witness ==
    /\ renderOut.done
    /\ ~TextTruthy(renderIn.history.final)
    /\ Len(renderIn.history.extracted) = 2
    /\ renderIn.history.extracted[1] # renderIn.history.extracted[2]
    /\ \E r \in Requests : r.task.result = renderIn.history.extracted[2]

\* C12: in the document generate_summary_flex renders, every section has at
\* least one bullet (a heading is followed by a bullet), and a document
\* without a section that has bullets is the single raw-text fallback block
C12_SectionsHaveBullets ==
    renderOut.done =>
        LET contents == renderOut.result.msg.contents IN
        /\ \A i \in 1..Len(contents) :
               contents[i].c = "heading" =>
                   i < Len(contents) /\ contents[i + 1].c = "bullet"
        /\ (\A i \in 1..Len(contents) : contents[i].c # "bullet") =>
               Len(contents) = 1 /\ contents[1].c = "raw"

\* number of the ops named o
OpCount(ops, o) == Cardinality({i \in 1..Len(ops) : ops[i] = o})

\* the push channel worked for r: every push its task attempted was delivered
PushChannelWorked(r) == OpCount(r.ops, "push") = Len(r.pushes)

\* the message is the failure message of the task's phase
IsFailureMessage(r, msg) ==
    /\ msg.type = "text"
    /\ HasLit(msg, IF r.task.kind = "discovery" THEN ScoutErrorPrefix
                   ELSE SummaryErrorPrefix)

\* the rendering of the result the task's phase returned
RenderedResult(r) ==
    IF r.task.kind = "discovery"
    THEN generate_scout_flex(
             Upper(GetDefault(r.task.config, "domain", Str(S_Custom)).s),
             r.task.result,
             GetDefault(r.task.config, "_domain_key", Str(S_aiops)).s)
    ELSE Rendered(generate_summary_flex(r.task.result))

\* C13: a background task calls agent.run at most once, and when agent.run
\* has returned or raised the task has ended; if every push it attempted
\* was delivered, the user got exactly one message: the failure message
\* when the run or the rendering raised, the 'no results' notice when the
\* discovery result is None, the rendered result otherwise.
C13_OneRunOneMessage ==
    \A r \in Requests :
        /\ r.task.agent_calls <= 1
        /\ OpCount(r.ops, "agent_run") = r.task.agent_calls
        /\ r.task.outcome # "none" => Ended(r) /\ r.task.agent_calls = 1
        /\ (r.task.outcome # "none" /\ PushChannelWorked(r)) =>
               /\ Len(r.pushes) = 1
               /\ IF r.task.outcome = "raised"
                  THEN IsFailureMessage(r, r.pushes[1])
                  ELSE IF r.task.kind = "discovery" /\ r.task.result.t = "none"
                  THEN r.pushes[1] = TextSendMessage(<<Lit(NoResultsNoticeZh)>>)
                  ELSE IF RenderedResult(r).raised
                  THEN IsFailureMessage(r, r.pushes[1])
                  ELSE r.pushes[1] = RenderedResult(r).msg

\* one task whose agent run raised and one whose run returned a result, each
\* with a single delivered message
C13_Witness ==
    /\ \E r \in Requests :
          /\ r.task.outcome = "raised" /\ PushChannelWorked(r)
          /\ Len(r.pushes) = 1 /\ IsFailureMessage(r, r.pushes[1])
    /\ \E r \in Requests :
          /\ r.task.outcome = "returned" /\ PushChannelWorked(r)
          /\ Len(r.pushes) = 1 /\ r.pushes[1].type = "flex"

====
